---- MODULE Spec2Model ----
(***************************************************************************)
(* Model of app.py: the Language Registry (LANGUAGES, indian, outers), the *)
(* Transcription Adapter (transcribe_and_detect_language), the Translation *)
(* Adapter (translate) and the Pipeline Coordinator (pipeline).            *)
(*                                                                         *)
(* A Python str is a sequence of one-character strings, so that            *)
(* str.lower() and string concatenation are computed, not assumed.         *)
(* A Python dict is a sequence of <<key, value>> pairs with distinct keys, *)
(* in insertion order.                                                     *)
(***************************************************************************)
EXTENDS Integers, Sequences, FiniteSets, TLC

----------------------------------------------------------------------------
(* Bounds of the model.                                                    *)

\* Language-detection scores range over 1..MaxProb for each candidate code.
MaxProb == 2

\* Texts passed to translate have at most MaxTextLen characters.
MaxTextLen == 1

----------------------------------------------------------------------------
(* Python built-ins used by app.py.                                        *)

UpperChars ==
  <<"A","B","C","D","E","F","G","H","I","J","K","L","M",
    "N","O","P","Q","R","S","T","U","V","W","X","Y","Z">>

LowerChars ==
  <<"a","b","c","d","e","f","g","h","i","j","k","l","m",
    "n","o","p","q","r","s","t","u","v","w","x","y","z">>

\* Upper-case letter -> lower-case letter.
LowerOf ==
  [c \in {UpperChars[i] : i \in DOMAIN UpperChars} |->
     LowerChars[CHOOSE i \in DOMAIN UpperChars : UpperChars[i] = c]]

\* str.lower() on one character (ASCII letters; the Registry is ASCII).
lower_char(c) ==
  IF c \in DOMAIN LowerOf THEN LowerOf[c] ELSE c

\* str.lower()
lower(s) ==
  [i \in DOMAIN s |-> lower_char(s[i])]

\* key in d
dict_has(d, k) ==
  \E i \in DOMAIN d : d[i][1] = k

\* d.get(k, default)
dict_get(d, k, default) ==
  IF dict_has(d, k)
    THEN d[CHOOSE i \in DOMAIN d : d[i][1] = k][2]
    ELSE default

\* d[k] = v : an existing key keeps its position and takes the new value.
dict_set(d, k, v) ==
  IF dict_has(d, k)
    THEN [i \in DOMAIN d |-> IF d[i][1] = k THEN <<k, v>> ELSE d[i]]
    ELSE Append(d, <<k, v>>)

\* The dict built from key/value pairs taken in order: a dict display
\* {k1: v1, ...} or a dict comprehension. A key stands where it first
\* occurs and holds the value of its last occurrence.
DictLiteral(pairs) ==
  LET first == {i \in DOMAIN pairs :
                  \A j \in DOMAIN pairs : j < i => pairs[j][1] # pairs[i][1]}
      nth(k) == CHOOSE i \in first : Cardinality({j \in first : j < i}) = k - 1
      last(key) == CHOOSE i \in DOMAIN pairs :
                     /\ pairs[i][1] = key
                     /\ \A j \in DOMAIN pairs : j > i => pairs[j][1] # key
  IN  [k \in 1..Cardinality(first) |->
         <<pairs[nth(k)][1], pairs[last(pairs[nth(k)][1])][2]>>]

\* d.values()
dict_values(d) ==
  {d[i][2] : i \in DOMAIN d}

\* d.keys()
dict_keys(d) ==
  {d[i][1] : i \in DOMAIN d}

----------------------------------------------------------------------------
(* Language Registry: app.py lines 14-47.                                  *)

\* The pairs of the LANGUAGES dict display, in the order written.
LANGUAGES_pairs ==
  <<
    <<<<"e","n">>, <<"E","n","g","l","i","s","h">>>>,
    <<<<"h","i">>, <<"H","i","n","d","i">>>>,
    <<<<"b","n">>, <<"B","e","n","g","a","l","i">>>>,
    <<<<"t","a">>, <<"T","a","m","i","l">>>>,
    <<<<"t","e">>, <<"T","e","l","u","g","u">>>>,
    <<<<"u","r">>, <<"U","r","d","u">>>>,
    <<<<"g","u">>, <<"G","u","j","a","r","a","t","i">>>>,
    <<<<"k","n">>, <<"K","a","n","n","a","d","a">>>>,
    <<<<"m","l">>, <<"M","a","l","a","y","a","l","a","m">>>>,
    <<<<"m","r">>, <<"M","a","r","a","t","h","i">>>>,
    <<<<"p","a">>, <<"P","u","n","j","a","b","i">>>>,
    <<<<"o","r">>, <<"O","d","i","a">>>>,
    <<<<"a","s">>, <<"A","s","s","a","m","e","s","e">>>>,
    <<<<"n","e">>, <<"N","e","p","a","l","i">>>>,
    <<<<"s","d">>, <<"S","i","n","d","h","i">>>>,
    <<<<"s","a">>, <<"S","a","n","s","k","r","i","t">>>>,
    <<<<"f","a">>, <<"P","e","r","s","i","a","n">>>>,
    <<<<"a","r">>, <<"A","r","a","b","i","c">>>>,
    <<<<"f","r">>, <<"F","r","e","n","c","h">>>>,
    <<<<"e","s">>, <<"S","p","a","n","i","s","h">>>>,
    <<<<"d","e">>, <<"G","e","r","m","a","n">>>>,
    <<<<"z","h">>, <<"C","h","i","n","e","s","e">>>>,
    <<<<"j","a">>, <<"J","a","p","a","n","e","s","e">>>>,
    <<<<"k","o">>, <<"K","o","r","e","a","n">>>>,
    <<<<"a","f">>, <<"A","f","r","i","k","a","a","n","s">>>>,
    <<<<"s","q">>, <<"A","l","b","a","n","i","a","n">>>>,
    <<<<"a","m">>, <<"A","m","h","a","r","i","c">>>>,
    <<<<"h","y">>, <<"A","r","m","e","n","i","a","n">>>>,
    <<<<"a","z">>, <<"A","z","e","r","b","a","i","j","a","n","i">>>>,
    <<<<"e","u">>, <<"B","a","s","q","u","e">>>>,
    <<<<"b","e">>, <<"B","e","l","a","r","u","s","i","a","n">>>>,
    <<<<"b","s">>, <<"B","o","s","n","i","a","n">>>>,
    <<<<"b","g">>, <<"B","u","l","g","a","r","i","a","n">>>>,
    <<<<"c","a">>, <<"C","a","t","a","l","a","n">>>>,
    <<<<"h","r">>, <<"C","r","o","a","t","i","a","n">>>>,
    <<<<"c","s">>, <<"C","z","e","c","h">>>>,
    <<<<"d","a">>, <<"D","a","n","i","s","h">>>>,
    <<<<"n","l">>, <<"D","u","t","c","h">>>>,
    <<<<"e","o">>, <<"E","s","p","e","r","a","n","t","o">>>>,
    <<<<"e","t">>, <<"E","s","t","o","n","i","a","n">>>>,
    <<<<"t","l">>, <<"F","i","l","i","p","i","n","o">>>>,
    <<<<"f","i">>, <<"F","i","n","n","i","s","h">>>>,
    <<<<"k","a">>, <<"G","e","o","r","g","i","a","n">>>>,
    <<<<"e","l">>, <<"G","r","e","e","k">>>>,
    <<<<"h","t">>, <<"H","a","i","t","i","a","n"," ","C","r","e","o","l","e">>>>,
    <<<<"i","w">>, <<"H","e","b","r","e","w">>>>,
    <<<<"h","u">>, <<"H","u","n","g","a","r","i","a","n">>>>,
    <<<<"i","s">>, <<"I","c","e","l","a","n","d","i","c">>>>,
    <<<<"i","d">>, <<"I","n","d","o","n","e","s","i","a","n">>>>,
    <<<<"g","a">>, <<"I","r","i","s","h">>>>,
    <<<<"i","t">>, <<"I","t","a","l","i","a","n">>>>,
    <<<<"j","w">>, <<"J","a","v","a","n","e","s","e">>>>,
    <<<<"k","k">>, <<"K","a","z","a","k","h">>>>,
    <<<<"l","a">>, <<"L","a","t","i","n">>>>,
    <<<<"l","v">>, <<"L","a","t","v","i","a","n">>>>,
    <<<<"l","t">>, <<"L","i","t","h","u","a","n","i","a","n">>>>,
    <<<<"m","k">>, <<"M","a","c","e","d","o","n","i","a","n">>>>,
    <<<<"m","s">>, <<"M","a","l","a","y">>>>,
    <<<<"m","n">>, <<"M","o","n","g","o","l","i","a","n">>>>,
    <<<<"n","o">>, <<"N","o","r","w","e","g","i","a","n">>>>,
    <<<<"p","l">>, <<"P","o","l","i","s","h">>>>,
    <<<<"p","t">>, <<"P","o","r","t","u","g","u","e","s","e">>>>,
    <<<<"r","o">>, <<"R","o","m","a","n","i","a","n">>>>,
    <<<<"r","u">>, <<"R","u","s","s","i","a","n">>>>,
    <<<<"s","r">>, <<"S","e","r","b","i","a","n">>>>,
    <<<<"s","k">>, <<"S","l","o","v","a","k">>>>,
    <<<<"s","l">>, <<"S","l","o","v","e","n","i","a","n">>>>,
    <<<<"s","w">>, <<"S","w","a","h","i","l","i">>>>,
    <<<<"s","v">>, <<"S","w","e","d","i","s","h">>>>,
    <<<<"t","h">>, <<"T","h","a","i">>>>,
    <<<<"t","r">>, <<"T","u","r","k","i","s","h">>>>,
    <<<<"u","k">>, <<"U","k","r","a","i","n","i","a","n">>>>
  >>

\* The pairs of the indian dict display, in the order written.
indian_pairs ==
  <<
    <<<<"b","e","n","g","a","l","i">>, <<"b","n">>>>,
    <<<<"e","n","g","l","i","s","h">>, <<"e","n">>>>,
    <<<<"g","u","j","a","r","a","t","i">>, <<"g","u">>>>,
    <<<<"h","i","n","d","i">>, <<"h","i">>>>,
    <<<<"k","a","n","n","a","d","a">>, <<"k","n">>>>,
    <<<<"m","a","l","a","y","a","l","a","m">>, <<"m","l">>>>,
    <<<<"m","a","r","a","t","h","i">>, <<"m","r">>>>,
    <<<<"n","e","p","a","l","i">>, <<"n","e">>>>,
    <<<<"o","d","i","a">>, <<"o","r">>>>,
    <<<<"p","u","n","j","a","b","i">>, <<"p","a">>>>,
    <<<<"s","i","n","d","h","i">>, <<"s","d">>>>,
    <<<<"t","a","m","i","l">>, <<"t","a">>>>,
    <<<<"t","e","l","u","g","u">>, <<"t","e">>>>,
    <<<<"u","r","d","u">>, <<"u","r">>>>
  >>

\* LANGUAGES with Whisper's code for Hebrew added beside "iw".
LANGUAGES_with_he ==
  DictLiteral(Append(LANGUAGES_pairs, <<<<"h","e">>, <<"H","e","b","r","e","w">>>>))

\* LANGUAGES: code -> display name.
LANGUAGES ==
  DictLiteral(LANGUAGES_pairs)

\* indian: lowercase name -> code.
indian ==
  DictLiteral(indian_pairs)

\* outers filtered on indian's keys (its names) instead of its values.
outers_filter_on_keys ==
  LET items == SelectSeq(LANGUAGES, LAMBDA item : item[1] \notin dict_keys(indian))
  IN  DictLiteral([i \in DOMAIN items |-> <<items[i][2], items[i][1]>>])

\* outers: display name -> code, for every LANGUAGES item whose code is not
\* a value of indian.
outers ==
  LET items == SelectSeq(LANGUAGES, LAMBDA item : item[1] \notin dict_values(indian))
  IN  DictLiteral([i \in DOMAIN items |-> <<items[i][2], items[i][1]>>])

\* lang_map = {v.lower(): k for k, v in LANGUAGES.items()}
lang_map ==
  DictLiteral([i \in DOMAIN LANGUAGES |-> <<lower(LANGUAGES[i][2]), LANGUAGES[i][1]>>])

----------------------------------------------------------------------------
(* Outcomes of a call: a returned value or a raised exception.             *)

Return(v) ==
  [raised |-> FALSE, cls |-> "", msg |-> <<>>, value |-> v]

Raise(cls, msg) ==
  [raised |-> TRUE, cls |-> cls, msg |-> msg, value |-> <<>>]

\* The exception classes the collaborators raise; each derives from
\* Exception, which is what "except Exception" catches.
ExceptionSubclasses ==
  {"RuntimeError", "ConnectionError", "TranslatorError"}

\* "Unsupported language"
UnsupportedLanguage ==
  <<"U","n","s","u","p","p","o","r","t","e","d"," ","l","a","n","g","u","a","g","e">>

\* "Translation failed: "
TranslationFailedPrefix ==
  <<"T","r","a","n","s","l","a","t","i","o","n"," ","f","a","i","l","e","d",":"," ">>

\* "Failed to load audio"
MsgLoadAudio ==
  <<"F","a","i","l","e","d"," ","t","o"," ","l","o","a","d"," ","a","u","d","i","o">>

\* "CUDA out of memory"
MsgModel ==
  <<"C","U","D","A"," ","o","u","t"," ","o","f"," ","m","e","m","o","r","y">>

\* "Max retries exceeded"
MsgNetwork ==
  <<"M","a","x"," ","r","e","t","r","i","e","s"," ","e","x","c","e","e","d","e","d">>

\* "Unsupported to_language"
MsgPair ==
  <<"U","n","s","u","p","p","o","r","t","e","d"," ","t","o","_","l","a","n","g","u","a","g","e">>

----------------------------------------------------------------------------
(* External collaborators.                                                  *)

\* The language codes of the detection-score map, in the map's order:
\* two Registry codes and one code ("cy") the Registry does not list.
WhisperCodes ==
  <<<<"e","n">>, <<"c","y">>, <<"h","i">>>>

\* The score maps detect_language can yield.
ProbMaps ==
  {[i \in DOMAIN WhisperCodes |-> <<WhisperCodes[i], f[i]>>] :
     f \in [DOMAIN WhisperCodes -> 1..MaxProb]}

\* "good morning"
TextGoodMorning ==
  <<"g","o","o","d"," ","m","o","r","n","i","n","g">>

\* An audio file, as Whisper sees it: undecodable, decodable but failing in
\* the model, or decodable with its detection scores and transcript.
AudioFiles ==
  {[fail |-> "decode", probs |-> <<>>, text |-> <<>>],
   [fail |-> "model", probs |-> <<>>, text |-> <<>>]}
  \cup {[fail |-> "none", probs |-> p, text |-> TextGoodMorning] : p \in ProbMaps}

\* The translation service: reachable or not, and knowing the Registry's
\* codes and "cy".
Engines ==
  {"up", "network_down"}

EngineCodes ==
  dict_keys(LANGUAGES) \cup {<<"c","y">>}

----------------------------------------------------------------------------
(* State.                                                                   *)

VARIABLES
  engine,     \* the translation service's condition, fixed for a run
  frame,      \* the current (or last) call of pipeline: its position,
              \* parameters, locals, the calls it made and what it gave
  request,    \* the arguments the caller passed to that call
  remembered, \* an earlier call of pipeline: its arguments, what it gave,
              \* whether a call began after it, and whether one with other
              \* arguments did
  t           \* a direct call of translate: its arguments and what it left

vars ==
  <<engine, frame, request, remembered, t>>

----------------------------------------------------------------------------
(* Transcription Adapter: app.py lines 49-62.                               *)

\* whisper.load_audio(audio_path)
whisper_load_audio(audio) ==
  IF audio.fail = "decode" THEN Raise("RuntimeError", MsgLoadAudio)
  ELSE Return(audio)

\* transcribe_model.detect_language(mel)
detect_language(audio) ==
  IF audio.fail = "model" THEN Raise("RuntimeError", MsgModel)
  ELSE Return(audio.probs)

\* max(probs, key=probs.get): the first key, in the map's order, whose score
\* no other key's exceeds.
max_key(probs) ==
  probs[CHOOSE i \in DOMAIN probs :
          /\ \A j \in DOMAIN probs : probs[j][2] <= probs[i][2]
          /\ \A j \in DOMAIN probs : j < i => probs[j][2] < probs[i][2]][1]

\* LANGUAGES.get(code), which gives None (here <<>>) for an unlisted code.
code_to_name_or_none(detected_lang_code) ==
  dict_get(LANGUAGES, detected_lang_code, <<>>)

\* LANGUAGES.get(detected_lang_code, detected_lang_code)
code_to_name(detected_lang_code) ==
  dict_get(LANGUAGES, detected_lang_code, detected_lang_code)

\* transcribe_and_detect_language(audio_path): <<detected_lang, text>>, or
\* the exception of the first collaborator call that raises.
transcribe_and_detect_language(audio) ==
  LET loaded == whisper_load_audio(audio)
      probs == detect_language(audio)
  IN  IF loaded.raised THEN loaded
      ELSE IF probs.raised THEN probs
      ELSE Return(<<code_to_name(max_key(probs.value)), audio.text>>)

----------------------------------------------------------------------------
(* Translation Adapter: app.py lines 64-86.                                 *)

\* ts.translate_text(text, translator='google', from_language, to_language)
\* against the service in its current condition.
ts_translate_text(txt, translator, from_language, to_language) ==
  IF engine = "network_down" THEN Raise("ConnectionError", MsgNetwork)
  ELSE IF from_language \notin EngineCodes \/ to_language \notin EngineCodes
    THEN Raise("TranslatorError", MsgPair)
  ELSE Return(to_language \o <<":">> \o txt)

\* The lookup with the raw input, not its lowercase form, as the fallback.
resolve_fallback_raw(name) ==
  dict_get(lang_map, lower(name), name)

\* lang_map.get(name.lower(), name.lower())
resolve(name) ==
  dict_get(lang_map, lower(name), lower(name))

\* The record of one ts.translate_text call.
EngineCall(txt, from_language, to_language, outcome) ==
  [text |-> txt, translator |-> "google", from_language |-> from_language,
   to_language |-> to_language, failed |-> outcome.raised,
   message |-> outcome.msg]

\* What a run of translate leaves: its outcome, its locals src_lang and
\* tgt_lang, and the ts.translate_text calls it made.
Ran(outcome, src_lang, tgt_lang, calls) ==
  [out |-> outcome, src_lang |-> src_lang, tgt_lang |-> tgt_lang, calls |-> calls]

\* The try block with "and" for "or" in the test of line 74.
translate_try_and(text_language, txt, translate_in_language) ==
  LET src_lang == resolve(text_language)
      tgt_lang == resolve(translate_in_language)
      answer == ts_translate_text(txt, "google", src_lang, tgt_lang)
  IN  IF src_lang = <<>> /\ tgt_lang = <<>>
        THEN Ran(Return(UnsupportedLanguage), src_lang, tgt_lang, <<>>)
        ELSE Ran(answer, src_lang, tgt_lang,
                 <<EngineCall(txt, src_lang, tgt_lang, answer)>>)

\* The body of translate's try block, lines 67-84.
translate_try(text_language, txt, translate_in_language) ==
  LET src_lang == resolve(text_language)
      tgt_lang == resolve(translate_in_language)
      answer == ts_translate_text(txt, "google", src_lang, tgt_lang)
  IN  IF src_lang = <<>> \/ tgt_lang = <<>>
        THEN Ran(Return(UnsupportedLanguage), src_lang, tgt_lang, <<>>)
        ELSE Ran(answer, src_lang, tgt_lang,
                 <<EngineCall(txt, src_lang, tgt_lang, answer)>>)

\* A handler that catches connection errors only.
except_ConnectionError(ran) ==
  IF ran.out.raised /\ ran.out.cls = "ConnectionError"
    THEN [ran EXCEPT !.out = Return(TranslationFailedPrefix \o ran.out.msg)]
    ELSE ran

\* except Exception as e: return f"Translation failed: {str(e)}"
except_Exception(ran) ==
  IF ran.out.raised /\ ran.out.cls \in ExceptionSubclasses
    THEN [ran EXCEPT !.out = Return(TranslationFailedPrefix \o ran.out.msg)]
    ELSE ran

\* translate calling the service a second time when the first call fails.
translate_retrying(text_language, txt, translate_in_language) ==
  LET first == translate_try(text_language, txt, translate_in_language)
      again == translate_try(text_language, txt, translate_in_language)
  IN  IF first.out.raised
        THEN except_Exception([again EXCEPT !.calls = first.calls \o @])
        ELSE first

\* translate(text_language, text, translate_in_language)
translate(text_language, txt, translate_in_language) ==
  except_Exception(translate_try(text_language, txt, translate_in_language))

----------------------------------------------------------------------------
(* Pipeline Coordinator: app.py lines 88-92.                                *)

\* No outcome yet.
NoResult ==
  [raised |-> FALSE, cls |-> "", msg |-> <<>>, value |-> <<>>]

\* A call that works on the audio file of the call before it.
pipeline_call_stale_audio(a, tl) ==
  [pc |-> "L90",
   audio_path |-> IF frame.pc = "idle" THEN a ELSE request.audio_path,
   target_language |-> tl,
   lang |-> <<>>, text |-> <<>>, translated |-> <<>>,
   translate_calls |-> 0, engine_calls |-> <<>>, result |-> NoResult]

\* The frame of a call pipeline(a, tl): parameters bound, locals unbound
\* (<<>>), nothing called yet, about to run line 90.
pipeline_call(a, tl) ==
  [pc |-> "L90", audio_path |-> a, target_language |-> tl,
   lang |-> <<>>, text |-> <<>>, translated |-> <<>>,
   translate_calls |-> 0, engine_calls |-> <<>>, result |-> NoResult]

\* Line 90 with the exception swallowed and empty values carried on.
pipeline_L90_swallow(f) ==
  LET r == transcribe_and_detect_language(f.audio_path)
  IN  IF r.raised
        THEN [f EXCEPT !.pc = "L91"]
        ELSE [f EXCEPT !.pc = "L91", !.lang = r.value[1], !.text = r.value[2]]

\* Line 90: lang, text = transcribe_and_detect_language(audio_path).
\* An exception leaves pipeline at once, to its caller.
pipeline_L90(f) ==
  LET r == transcribe_and_detect_language(f.audio_path)
  IN  IF r.raised
        THEN [f EXCEPT !.pc = "raised", !.result = r]
        ELSE [f EXCEPT !.pc = "L91", !.lang = r.value[1], !.text = r.value[2]]

\* Line 91 dropping lang and text when the translation is a failure string.
pipeline_L91_drops(f) ==
  LET ran == translate(f.lang, f.text, f.target_language)
      g == [f EXCEPT !.translate_calls = @ + 1,
                     !.engine_calls = @ \o ran.calls]
  IN  IF ran.out.raised
        THEN [g EXCEPT !.pc = "raised", !.result = ran.out]
        ELSE IF \E i \in DOMAIN ran.calls : ran.calls[i].failed
          THEN [g EXCEPT !.pc = "L92", !.translated = ran.out.value,
                         !.lang = <<>>, !.text = <<>>]
          ELSE [g EXCEPT !.pc = "L92", !.translated = ran.out.value]

\* Line 91: translated = translate(lang, text, target_language).
pipeline_L91(f) ==
  LET ran == translate(f.lang, f.text, f.target_language)
      g == [f EXCEPT !.translate_calls = @ + 1,
                     !.engine_calls = @ \o ran.calls]
  IN  IF ran.out.raised
        THEN [g EXCEPT !.pc = "raised", !.result = ran.out]
        ELSE [g EXCEPT !.pc = "L92", !.translated = ran.out.value]

\* Line 92: return lang, text, translated.
pipeline_L92(f) ==
  [f EXCEPT !.pc = "returned",
            !.result = Return(<<f.lang, f.text, f.translated>>)]

----------------------------------------------------------------------------
(* Inputs.                                                                  *)

\* Target languages a caller passes to pipeline: a display name, a name the
\* Registry does not list, and "".
Targets ==
  {<<"S","p","a","n","i","s","h">>, <<"K","l","i","n","g","o","n">>, <<>>}

\* Lower-case letter -> upper-case letter, to build inputs in another case.
UpperOf ==
  [c \in {LowerChars[i] : i \in DOMAIN LowerChars} |->
     UpperChars[CHOOSE i \in DOMAIN LowerChars : LowerChars[i] = c]]

upper_char(c) ==
  IF c \in DOMAIN UpperOf THEN UpperOf[c] ELSE c

upper(s) ==
  [i \in DOMAIN s |-> upper_char(s[i])]

\* Identifiers the Registry does not list, "" among them.
UnlistedIds ==
  {<<>>, <<"K","l","i","n","g","o","n">>, <<"k","l","i","n","g","o","n">>, <<"h","e">>, <<"c","y">>, <<"Z","Z">>, <<"p","t","-","B","R">>}

\* A few identifiers to pair with any other.
FewIds ==
  {<<>>, <<"K","l","i","n","g","o","n">>, <<"S","p","a","n","i","s","h">>}

\* Language identifiers a caller passes to translate: every display name as
\* written, in lower case and in upper case, every code in both cases, and
\* the unlisted ones.
SampleIds ==
  UNION {{LANGUAGES[i][2], lower(LANGUAGES[i][2]), upper(LANGUAGES[i][2]),
          LANGUAGES[i][1], upper(LANGUAGES[i][1])} : i \in DOMAIN LANGUAGES}
  \cup UnlistedIds \cup FewIds \cup {<<"h","A","I","T","I","A","N"," ","c","R","E","O","L","E">>}

\* The texts passed to translate: the prefixes of a transcript up to
\* MaxTextLen characters, "" among them.
Texts ==
  {SubSeq(TextGoodMorning, 1, n) : n \in 0..MaxTextLen}

----------------------------------------------------------------------------
(* Behaviour.                                                               *)

\* The module is loaded, the interface is up, nothing has been called: no
\* call of pipeline is under way (pc "idle", the frame's other fields unused).
Init ==
  /\ engine \in Engines
  /\ frame = [pc |-> "idle",
              audio_path |-> CHOOSE a \in AudioFiles : a.fail = "decode",
              target_language |-> <<>>,
              lang |-> <<>>, text |-> <<>>, translated |-> <<>>,
              translate_calls |-> 0, engine_calls |-> <<>>, result |-> NoResult]
  /\ request = [audio_path |-> frame.audio_path, target_language |-> <<>>]
  /\ remembered = [has |-> FALSE, request |-> request, result |-> NoResult,
                   later |-> FALSE, between |-> FALSE]
  /\ t = [called |-> FALSE, text_language |-> <<>>, text |-> <<>>,
          translate_in_language |-> <<>>,
          ran |-> Ran(NoResult, <<>>, <<>>, <<>>)]

\* The caller is given the call's outcome; the call may be the one a later
\* call is compared with.
Finished(f) ==
  /\ frame' = f
  /\ \/ remembered' = remembered
     \/ remembered' = [has |-> TRUE, request |-> request, result |-> f.result,
                       later |-> FALSE, between |-> FALSE]

\* translate_btn.click(fn=pipeline, ...): a call of pipeline begins.
Click(a, tl) ==
  /\ frame.pc \in {"idle", "returned", "raised"}
  /\ frame' = pipeline_call(a, tl)
  /\ request' = [audio_path |-> a, target_language |-> tl]
  /\ remembered' =
       IF remembered.has
         THEN [remembered EXCEPT !.later = TRUE,
                                 !.between = @ \/ request' # remembered.request]
         ELSE remembered
  /\ UNCHANGED <<engine, t>>

\* Line 90 runs.
Transcribe ==
  /\ frame.pc = "L90"
  /\ LET f == pipeline_L90(frame)
     IN  IF f.pc = "raised" THEN Finished(f)
         ELSE frame' = f /\ remembered' = remembered
  /\ UNCHANGED <<engine, request, t>>

\* Line 91 runs.
Translate ==
  /\ frame.pc = "L91"
  /\ LET f == pipeline_L91(frame)
     IN  IF f.pc = "raised" THEN Finished(f)
         ELSE frame' = f /\ remembered' = remembered
  /\ UNCHANGED <<engine, request, t>>

\* Line 92 runs.
ReturnTriple ==
  /\ frame.pc = "L92"
  /\ Finished(pipeline_L92(frame))
  /\ UNCHANGED <<engine, request, t>>

Next ==
  \/ \E a \in AudioFiles, tl \in Targets : Click(a, tl)
  \/ Transcribe
  \/ Translate
  \/ ReturnTriple

Spec ==
  Init /\ [][Next]_vars

\* translate called on its own, once in a run.
TranslateCall(text_language, txt, translate_in_language) ==
  /\ ~t.called
  /\ t' = [called |-> TRUE, text_language |-> text_language, text |-> txt,
           translate_in_language |-> translate_in_language,
           ran |-> translate(text_language, txt, translate_in_language)]
  /\ UNCHANGED <<engine, frame, request, remembered>>

NextTranslate ==
  \/ \E a \in SampleIds, b \in FewIds, txt \in Texts : TranslateCall(a, txt, b)
  \/ \E a \in FewIds, b \in SampleIds, txt \in Texts : TranslateCall(a, txt, b)

SpecTranslate ==
  Init /\ [][NextTranslate]_vars

----------------------------------------------------------------------------
(* Properties of translate called on its own (SpecTranslate).               *)

\* C1: translate never raises: whatever the source, text and target and
\* whatever the service does, a finished call has returned a value, and when
\* its ts.translate_text call failed that value is "Translation failed: "
\* followed by the error's message.
C1_TranslateNeverRaises ==
  t.called =>
    /\ ~t.ran.out.raised
    /\ \A i \in DOMAIN t.ran.calls :
         t.ran.calls[i].failed =>
           t.ran.out.value = TranslationFailedPrefix \o t.ran.calls[i].message

\* A call whose service call failed on an unsupported pair, not on the network.
C1_Witness ==
  /\ t.called
  /\ engine = "up"
  /\ Len(t.ran.calls) = 1
  /\ t.ran.calls[1].failed
  /\ t.ran.out.value = TranslationFailedPrefix \o MsgPair

\* C2: translate returns exactly "Unsupported language" whenever the resolved
\* source or the resolved target identifier is empty, for any nonempty text,
\* and then ts.translate_text is not called.
C2_UnsupportedLanguage ==
  (/\ t.called
   /\ t.text # <<>>
   /\ (t.ran.src_lang = <<>> \/ t.ran.tgt_lang = <<>>)) =>
    /\ t.ran.out = Return(UnsupportedLanguage)
    /\ t.ran.calls = <<>>

\* A call with an empty source and a listed target.
C2_Witness ==
  /\ t.called
  /\ t.text # <<>>
  /\ t.text_language = <<>>
  /\ t.ran.tgt_lang = <<"e","s">>
  /\ t.ran.out.value = UnsupportedLanguage

\* The display names of LANGUAGES in lower case, entry by entry.
LoweredNames ==
  [i \in DOMAIN LANGUAGES |-> lower(LANGUAGES[i][2])]

\* name matches the display name of some Registry entry, letter case aside.
Listed(name) ==
  LET n == lower(name)
  IN  \E i \in DOMAIN LANGUAGES : LoweredNames[i] = n

\* name matches, letter case aside, the display name of an entry with this code.
ListedAs(name, code) ==
  LET n == lower(name)
  IN  \E i \in DOMAIN LANGUAGES : LoweredNames[i] = n /\ LANGUAGES[i][1] = code

\* The identifiers a finished call of translate was given, each with what
\* the call resolved it to.
Resolutions ==
  {<<t.text_language, t.ran.src_lang>>, <<t.translate_in_language, t.ran.tgt_lang>>}

\* C6: for every code c of LANGUAGES, the display name of c, in any letter
\* case, resolves through translate's reverse lookup to c again.
C6_RoundTrip ==
  t.called =>
    \A r \in Resolutions :
      LET n == lower(r[1])
      IN  \A i \in DOMAIN LANGUAGES :
            n = LoweredNames[i] => r[2] = LANGUAGES[i][1]

\* "HAITIAN CREOLE", a display name in another letter case, resolved to "ht".
C6_Witness ==
  /\ t.called
  /\ t.text_language = <<"H","A","I","T","I","A","N"," ","C","R","E","O","L","E">>
  /\ t.ran.src_lang = <<"h","t">>

\* C8 as stated: the resolution gives the Registry code when the input
\* matches a display name case-insensitively, and otherwise gives the input
\* unchanged.
C8_FallbackUnchanged ==
  t.called =>
    \A r \in Resolutions :
      IF Listed(r[1]) THEN ListedAs(r[1], r[2]) ELSE r[2] = r[1]

\* C8 amended: the resolution gives the Registry code when the input matches
\* a display name case-insensitively, and otherwise gives the input in lower
\* case.
C8_FallbackLowercased ==
  t.called =>
    \A r \in Resolutions :
      IF Listed(r[1]) THEN ListedAs(r[1], r[2]) ELSE r[2] = lower(r[1])

\* "Klingon" resolved to "klingon", and "EN" to "en".
C8_Witness ==
  /\ t.called
  /\ t.text_language = <<"E","N">>
  /\ t.ran.src_lang = <<"e","n">>
  /\ t.translate_in_language = <<"K","l","i","n","g","o","n">>
  /\ t.ran.tgt_lang = <<"k","l","i","n","g","o","n">>
  /\ t.ran.calls # <<>>

----------------------------------------------------------------------------
(* Properties of pipeline (Spec).                                           *)

\* What transcription gives for the audio file the caller passed.
Transcription ==
  transcribe_and_detect_language(request.audio_path)

\* The current call of pipeline has left line 90 behind.
PastL90 ==
  frame.pc \in {"L91", "L92", "returned", "raised"}

\* The current call of pipeline is over.
Over ==
  frame.pc \in {"returned", "raised"}

\* C3: when transcription succeeds and the translation service fails, the
\* call still returns a triple: the detected language name and the transcript
\* as transcription produced them, then "Translation failed: <message>".
C3_TranslationFailureKeepsTranscript ==
  (/\ Over
   /\ ~Transcription.raised
   /\ \E i \in DOMAIN frame.engine_calls : frame.engine_calls[i].failed) =>
    /\ frame.pc = "returned"
    /\ frame.result =
         Return(<<Transcription.value[1], Transcription.value[2],
                  TranslationFailedPrefix \o frame.engine_calls[1].message>>)

\* A returned call whose service call failed while the network was down.
C3_Witness ==
  /\ frame.pc = "returned"
  /\ engine = "network_down"
  /\ frame.result.value =
       <<<<"E","n","g","l","i","s","h">>, TextGoodMorning, TranslationFailedPrefix \o MsgNetwork>>

\* C4: when transcription fails, its error reaches the caller, no triple is
\* produced, and neither translate nor ts.translate_text is called.
C4_TranscriptionFailureAborts ==
  (PastL90 /\ Transcription.raised) =>
    /\ frame.pc = "raised"
    /\ frame.result = Transcription
    /\ frame.result.value = <<>>
    /\ frame.translate_calls = 0
    /\ frame.engine_calls = <<>>

\* A call ended by the model's error.
C4_Witness ==
  /\ frame.pc = "raised"
  /\ request.audio_path.fail = "model"
  /\ frame.result = Raise("RuntimeError", MsgModel)

\* The code the detection scores of the caller's audio file select.
DetectedCode ==
  max_key(request.audio_path.probs)

\* C5: ts.translate_text is called only once transcription is done, with this
\* request's transcript and a source identifier derived from this request's
\* detected language, and at most once per request, a failure included.
C5_EngineOnceAfterTranscription ==
  /\ Len(frame.engine_calls) <= 1
  /\ frame.engine_calls # <<>> =>
       /\ frame.pc \in {"L92", "returned"}
       /\ frame.translate_calls = 1
       /\ ~Transcription.raised
       /\ frame.engine_calls[1].text = request.audio_path.text
       /\ frame.engine_calls[1].from_language =
            IF dict_has(LANGUAGES, DetectedCode) THEN DetectedCode
            ELSE lower(DetectedCode)

\* A call that reached the service once, failed there, and returned.
C5_Witness ==
  /\ frame.pc = "returned"
  /\ Len(frame.engine_calls) = 1
  /\ frame.engine_calls[1].failed
  /\ frame.engine_calls[1].from_language = <<"h","i">>

\* c is a code of exactly one of indian and outers.
InExactlyOne(c) ==
  (c \in dict_values(indian)) # (c \in dict_values(outers))

\* C7: indian and outers partition the Registry by code: every code of
\* indian is a code of LANGUAGES, every code of LANGUAGES is in exactly one
\* of the two, the codes a request hands to the service among them, and the
\* two share no code.
C7_Partition ==
  /\ dict_values(indian) \subseteq dict_keys(LANGUAGES)
  /\ \A c \in dict_keys(LANGUAGES) : InExactlyOne(c)
  /\ \A i \in DOMAIN frame.engine_calls :
       \A c \in {frame.engine_calls[i].from_language,
                 frame.engine_calls[i].to_language} :
         c \in dict_keys(LANGUAGES) => InExactlyOne(c)
  /\ dict_values(indian) \cap dict_values(outers) = {}

\* A request from a language of indian into a language of outers.
C7_Witness ==
  /\ frame.pc = "returned"
  /\ Len(frame.engine_calls) = 1
  /\ frame.engine_calls[1].from_language \in dict_values(indian)
  /\ frame.engine_calls[1].to_language \in dict_values(outers)
  /\ frame.engine_calls[1].to_language \notin dict_values(indian)

\* C9: two calls of pipeline with the same arguments, against the same
\* service, give the same outcome, whatever calls came before or between.
C9_SameInputsSameOutput ==
  (Over /\ remembered.has /\ remembered.later /\ remembered.request = request) =>
    remembered.result = frame.result

\* A call that returned a triple, repeated after a call with other arguments.
C9_Witness ==
  /\ frame.pc = "returned"
  /\ remembered.has
  /\ remembered.later
  /\ remembered.between
  /\ remembered.request = request
  /\ remembered.result = frame.result

\* C10: the detected language name is the display name of a code of maximum
\* score when LANGUAGES lists that code and the code itself when it does not;
\* the lookup fails for no code.
C10_DetectedName ==
  (PastL90 /\ request.audio_path.fail = "none") =>
    /\ frame.pc # "raised"
    /\ \E i \in DOMAIN request.audio_path.probs :
         LET code == request.audio_path.probs[i][1]
             score == request.audio_path.probs[i][2]
         IN  /\ \A j \in DOMAIN request.audio_path.probs :
                  request.audio_path.probs[j][2] <= score
             /\ IF \E k \in DOMAIN LANGUAGES : LANGUAGES[k][1] = code
                  THEN \E k \in DOMAIN LANGUAGES :
                         LANGUAGES[k][1] = code /\ frame.lang = LANGUAGES[k][2]
                  ELSE frame.lang = code

\* "cy", which LANGUAGES does not list, detected and returned as it is.
C10_Witness ==
  /\ frame.pc = "returned"
  /\ DetectedCode = <<"c","y">>
  /\ frame.result.value[1] = <<"c","y">>
====
